---- MODULE Spec2Model ----
(***************************************************************************)
(* The change-coalescing watcher of appix (src/watch.go): the control     *)
(* loop of RegisterWatch, the debounce timer it arms with time.AfterFunc, *)
(* and the doPush goroutines that report on the pushDone channel.         *)
(*                                                                         *)
(* All three channels are unbuffered, so a receive by the loop is one     *)
(* step taken together with a sender that is blocked on the channel.      *)
(***************************************************************************)
EXTENDS Integers, Sequences, FiniteSets, TLC

(* ------------------------------ bounds -------------------------------- *)

\* Relevant change notifications the event source delivers between two
\* PushRun starts.
MaxNotes == 3

\* Change-triggered PushRuns the event source provokes in one busy period
\* (from leaving waiting until returning to it).
MaxChain == 3

\* Clock steps the 100ms debounce window is divided into.
WindowSteps == 2

(* --------------------------- watcher states --------------------------- *)

waiting == 0

initialDelay == 1

pushing == 2

pushingAndGotEvent == 3

WatcherStates == {waiting, initialDelay, pushing, pushingAndGotEvent}

\* What a notification read from fileWatch turns out to be: a path that
\* filepath.Rel rejects, a path IgnoreFilePath ignores, or a relevant one.
EventKinds == {"relError", "ignored", "relevant"}

VARIABLES
    pc,            \* where the command's goroutine is
    watcherState,  \* the package variable watcherState
    noBrowser,     \* the package variable noBrowser (flag --noBrowser)
    timers,        \* armed time.AfterFunc timers: clock steps left, each
    delaySenders,  \* timer callbacks blocked on initialDelayDone <- 0
    pushes,        \* the doPush calls that have not returned yet
    reloads,       \* livereload.SendReload calls since the last PushRun start
    lastInput,     \* the select case the loop took last
    notes,         \* relevant notifications received since the last PushRun start
    chain,         \* change-triggered PushRuns started since waiting was last left
    covered,       \* relevant notifications received before the last PushRun start
                   \* and after the one before it
    age            \* clock steps since waiting was last left

vars == <<pc, watcherState, noBrowser, timers, delaySenders, pushes,
          reloads, lastInput, notes, chain, covered, age>>

(* ------------------------------ helpers ------------------------------- *)

Remove(seq, i) == [j \in 1..(Len(seq) - 1) |-> IF j < i THEN seq[j] ELSE seq[j + 1]]

\* The PushRuns whose push() call is executing.
Executing == Cardinality({i \in 1..Len(pushes) : pushes[i].at = "push"})

\* The PushRuns blocked on pushDone <- 0.
Completed == {i \in 1..Len(pushes) : pushes[i].at = "send"}

\* A call of doPush: the third argument of push() is !openBrowser, and the
\* call reports on pushDone only when the channel is not nil. seen is the
\* value of notes when push() returned.
DoPush(openBrowser, hasDone) ==
    [at |-> "push", openBrowser |-> openBrowser, noBrowserArg |-> ~openBrowser,
     hasDone |-> hasDone, failed |-> FALSE, seen |-> 0]

\* Mutation: the reload is sent whatever openBrowser is.
SendsReloadAlways(p) == TRUE

\* doPush: if !openBrowser { livereload.SendReload() }.
SendsReload(p) == ~p.openBrowser

\* Mutation: doPush returns early when push() failed.
SignalsOnSuccess(p, failed) == p.hasDone /\ ~failed

\* doPush: if pushDone != nil { pushDone <- 0 }, whatever push() did.
Signals(p, failed) == p.hasDone

\* Mutations: the IgnoreFilePath check is missing; the filepath.Rel error
\* is not checked.
RelevantAll(kind) == TRUE

RelevantUnlessIgnored(kind) == kind # "ignored"

\* case ei := <-fileWatch: the notifications that reach the state switch,
\* those that neither fail filepath.Rel nor are ignored.
Relevant(kind) == kind = "relevant"

(* ----------------- the transition table of the loop ------------------- *)

\* Mutation: a notification received while pushing is not flagged.
ChangeStateDrop(s) == IF s = waiting THEN initialDelay ELSE s

\* case ei := <-fileWatch, relevant path: the new watcherState ...
ChangeState(s) ==
    IF s = waiting THEN initialDelay
    ELSE IF s = pushing THEN pushingAndGotEvent
    ELSE s

\* Mutation: a notification received in initialDelay arms a timer as well.
ChangeTimersDup(s, ts) ==
    IF s = waiting \/ s = initialDelay THEN Append(ts, WindowSteps) ELSE ts

\* Mutation: a notification received in initialDelay restarts the timer.
ChangeTimersReset(s, ts) ==
    IF s = waiting \/ s = initialDelay THEN <<WindowSteps>> ELSE ts

\* ... and the timers after it: time.AfterFunc arms one more, in waiting only.
ChangeTimers(s, ts) == IF s = waiting THEN Append(ts, WindowSteps) ELSE ts

\* Mutations: every completion starts a new doPush; no completion does.
PushDoneRerunsAlways(s) == TRUE

PushDoneRerunsNever(s) == FALSE

\* case <-pushDone: whether a new doPush is started ...
PushDoneReruns(s) == s = pushingAndGotEvent

\* Mutation: every completion returns the loop to waiting.
PushDoneStateIdle(s) == waiting

\* ... and the new watcherState.
PushDoneState(s) == IF s = pushingAndGotEvent THEN pushing ELSE waiting

(* ------------------------------- Init --------------------------------- *)

Init ==
    /\ pc = "start"
    /\ watcherState = waiting
    /\ noBrowser \in BOOLEAN
    /\ timers = <<>>
    /\ delaySenders = 0
    /\ pushes = <<>>
    /\ reloads = 0
    /\ lastInput = "none"
    /\ notes = 0
    /\ chain = 0
    /\ covered = 0
    /\ age = 0

(* ------------------------------ actions ------------------------------- *)

\* Mutation: the initial push is started as a goroutine reporting on
\* pushDone, and the loop is entered at once.
StartupAsync ==
    /\ pc = "start"
    /\ pc' = "loop"
    /\ pushes' = Append(pushes, DoPush(TRUE, TRUE))
    /\ reloads' = 0
    /\ UNCHANGED <<watcherState, noBrowser, timers, delaySenders,
                   lastInput, notes, chain, covered, age>>

\* The Action callback up to the initial doPush: filepath.Abs and
\* notify.Watch may fail (log.Fatal); otherwise the live-reload server is
\* started and the initial doPush(…, true, …, nil, …) is called.
Startup ==
    /\ pc = "start"
    /\ \E ok \in BOOLEAN :
         IF ok
         THEN /\ pc' = "initialPush"
              /\ pushes' = Append(pushes, DoPush(TRUE, FALSE))
              /\ reloads' = 0
         ELSE /\ pc' = "fatal"
              /\ UNCHANGED <<pushes, reloads>>
    /\ UNCHANGED <<watcherState, noBrowser, timers, delaySenders,
                   lastInput, notes, chain, covered, age>>

\* push() of the doPush call i returns, having failed or not; doPush sends
\* the reload when openBrowser is false, and then either blocks on
\* pushDone <- 0 or, with a nil channel, returns to its caller.
PushReturns(i, failed) ==
    /\ i \in 1..Len(pushes)
    /\ pushes[i].at = "push"
    /\ reloads' = IF SendsReload(pushes[i]) THEN reloads + 1 ELSE reloads
    /\ IF Signals(pushes[i], failed)
       THEN /\ pushes' = [pushes EXCEPT ![i].at = "send", ![i].failed = failed,
                                        ![i].seen = notes]
            /\ pc' = pc
       ELSE /\ pushes' = Remove(pushes, i)
            /\ pc' = IF pc = "initialPush" THEN "initialReload" ELSE pc
    /\ UNCHANGED <<watcherState, noBrowser, timers, delaySenders,
                   lastInput, notes, chain, covered, age>>

\* livereload.SendReload() after the initial push; the loop is entered.
InitialReload ==
    /\ pc = "initialReload"
    /\ reloads' = reloads + 1
    /\ pc' = "loop"
    /\ UNCHANGED <<watcherState, noBrowser, timers, delaySenders, pushes,
                   lastInput, notes, chain, covered, age>>

\* case ei := <-fileWatch.
RecvFileWatch(kind) ==
    /\ pc = "loop"
    /\ lastInput' = kind
    /\ IF Relevant(kind)
       THEN /\ notes < MaxNotes
            /\ watcherState = pushing => chain < MaxChain
            /\ watcherState' = ChangeState(watcherState)
            /\ timers' = ChangeTimers(watcherState, timers)
            /\ notes' = notes + 1
            /\ chain' = IF watcherState = waiting THEN 0 ELSE chain
            /\ age' = IF watcherState = waiting THEN 0 ELSE age
       ELSE UNCHANGED <<watcherState, timers, notes, chain, age>>
    /\ UNCHANGED <<pc, noBrowser, delaySenders, pushes, reloads, covered>>

\* The clock advances by one step; a timer that is due fires first.
Tick ==
    /\ timers # <<>>
    /\ \A i \in 1..Len(timers) : timers[i] > 0
    /\ timers' = [i \in 1..Len(timers) |-> timers[i] - 1]
    /\ age' = age + 1
    /\ UNCHANGED <<pc, watcherState, noBrowser, delaySenders, pushes,
                   reloads, lastInput, notes, chain, covered>>

\* A due timer runs its callback, which blocks on initialDelayDone <- 0.
TimerFires(i) ==
    /\ i \in 1..Len(timers)
    /\ timers[i] = 0
    /\ timers' = Remove(timers, i)
    /\ delaySenders' = delaySenders + 1
    /\ UNCHANGED <<pc, watcherState, noBrowser, pushes, reloads,
                   lastInput, notes, chain, covered, age>>

\* case <-initialDelayDone.
RecvInitialDelayDone ==
    /\ pc = "loop"
    /\ delaySenders > 0
    /\ delaySenders' = delaySenders - 1
    /\ watcherState' = pushing
    /\ pushes' = Append(pushes, DoPush(FALSE, TRUE))
    /\ lastInput' = "delayDone"
    /\ notes' = 0
    /\ covered' = notes
    /\ reloads' = 0
    /\ chain' = chain + 1
    /\ UNCHANGED <<pc, noBrowser, timers, age>>

\* case <-pushDone, taken with the doPush call i that is blocked on it.
RecvPushDone(i) ==
    /\ pc = "loop"
    /\ i \in Completed
    /\ watcherState' = PushDoneState(watcherState)
    /\ lastInput' = "pushDone"
    /\ IF PushDoneReruns(watcherState)
       THEN /\ pushes' = Append(Remove(pushes, i), DoPush(FALSE, TRUE))
            /\ notes' = 0
            /\ covered' = notes
            /\ reloads' = 0
            /\ chain' = chain + 1
       ELSE /\ pushes' = Remove(pushes, i)
            /\ UNCHANGED <<notes, covered, reloads, chain>>
    /\ UNCHANGED <<pc, noBrowser, timers, delaySenders, age>>

Next ==
    \/ Startup
    \/ \E i \in 1..Len(pushes), failed \in BOOLEAN : PushReturns(i, failed)
    \/ InitialReload
    \/ \E kind \in EventKinds : RecvFileWatch(kind)
    \/ Tick
    \/ \E i \in 1..Len(timers) : TimerFires(i)
    \/ RecvInitialDelayDone
    \/ \E i \in 1..Len(pushes) : RecvPushDone(i)

Spec == Init /\ [][Next]_vars

\* Every started push() returns, timers run, and the select takes a case
\* whose sender stays blocked on it; the event source owes nothing.
FairSpec ==
    /\ Spec
    /\ WF_vars(\E i \in 1..Len(pushes), failed \in BOOLEAN : PushReturns(i, failed))
    /\ WF_vars(InitialReload)
    /\ WF_vars(Tick)
    /\ WF_vars(\E i \in 1..Len(timers) : TimerFires(i))
    /\ WF_vars(RecvInitialDelayDone)
    /\ WF_vars(\E i \in 1..Len(pushes) : RecvPushDone(i))

TypeOK ==
    /\ pc \in {"start", "fatal", "initialPush", "initialReload", "loop"}
    /\ watcherState \in WatcherStates
    /\ noBrowser \in BOOLEAN
    /\ delaySenders \in Nat
    /\ lastInput \in EventKinds \cup {"none", "delayDone", "pushDone"}
    /\ notes \in 0..MaxNotes
    /\ chain \in Nat
    /\ covered \in 0..MaxNotes
    /\ age \in Nat

(* ============================ properties ============================== *)

\* Steps, told by what they do to the state.
StartsPushRun == Executing' = Executing + 1

GotChange == notes' = notes + 1

GotDelayDone == delaySenders' = delaySenders - 1

GotPushDone == Cardinality(Completed') = Cardinality(Completed) - 1

\* Debounce timers armed, or expired with the expiry not yet received.
Tickets == Len(timers) + delaySenders

\* C1: at most one PushRun, initial or change-triggered, is executing at any
\* time, and a PushRun is started only at startup, on debounce-expired or on
\* push-completed, and only when none is executing.
C1_OnePushRunInFlight ==
    /\ [](Executing <= 1 /\ Len(pushes) <= 1)
    /\ [][StartsPushRun =>
            /\ Executing = 0
            /\ pc = "start" \/ GotDelayDone \/ GotPushDone]_vars

C1_Witness == Executing = 1 /\ lastInput = "pushDone" /\ chain >= 2

\* C2: under fair scheduling of the pushes, the timer and the loop, every
\* relevant notification the loop receives is followed by the start of a
\* PushRun.
C2_NoMissedChange == (notes > 0) ~> (notes = 0)

C2_Witness == chain >= 2 /\ covered >= 1 /\ notes = 0 /\ Executing = 1

\* C3: the notifications of a burst received from waiting on start no
\* PushRun; the debounce-expired signal is received with none started yet
\* and a full window elapsed, and starts exactly one, covering them all.
C3_DebounceAbsorption ==
    /\ [](watcherState = initialDelay => notes >= 1 /\ chain = 0 /\ pushes = <<>>)
    /\ [][GotChange => ~StartsPushRun /\ pushes' = pushes]_vars
    /\ [][GotDelayDone =>
            /\ chain = 0 /\ chain' = 1
            /\ pushes = <<>> /\ Len(pushes') = 1 /\ StartsPushRun
            /\ covered' = notes /\ notes >= 1
            /\ age >= WindowSteps]_vars

C3_Witness ==
    lastInput = "delayDone" /\ chain = 1 /\ covered >= 2 /\ Executing = 1

\* C4: while a PushRun is in flight the state is pushingAndGotEvent exactly
\* when at least one relevant notification was received since it started; its
\* completion then starts exactly one PushRun, whatever their number, and
\* none otherwise.
C4_MidPushCoalescing ==
    /\ [](watcherState \in {pushing, pushingAndGotEvent} =>
            (watcherState = pushingAndGotEvent <=> notes >= 1))
    /\ [][GotPushDone =>
            IF notes >= 1
            THEN /\ StartsPushRun
                 /\ Len(pushes') = 1
                 /\ chain' = chain + 1
                 /\ covered' = notes
            ELSE /\ ~StartsPushRun
                 /\ pushes' = <<>>
                 /\ chain' = chain]_vars

C4_Witness ==
    lastInput = "pushDone" /\ covered >= 2 /\ Executing = 1 /\ Len(pushes) = 1

\* C5: push-completed received in pushingAndGotEvent sets pushing and starts
\* a PushRun in the same step, arming no timer; initialDelay is entered from
\* waiting only, and waiting only by a completion received in pushing with
\* no notification pending.
C5_ChainedRerun ==
    /\ [][GotPushDone /\ watcherState = pushingAndGotEvent =>
            /\ watcherState' = pushing
            /\ StartsPushRun
            /\ timers' = timers /\ delaySenders' = delaySenders]_vars
    /\ [][watcherState # initialDelay /\ watcherState' = initialDelay =>
            watcherState = waiting]_vars
    /\ [][watcherState # waiting /\ watcherState' = waiting =>
            GotPushDone /\ watcherState = pushing /\ notes = 0]_vars

C5_Witness ==
    chain >= 3 /\ watcherState = pushing /\ lastInput = "pushDone" /\ Tickets = 0

\* C6: whenever a debounce-expired signal is there to be received, the state
\* is initialDelay.
C6_DelayDoneOnlyInInitialDelay ==
    delaySenders > 0 => pc = "loop" /\ watcherState = initialDelay

C6_Witness == delaySenders > 0 /\ notes >= 2

\* C7: whenever a push-completed signal is there to be received, the state
\* is pushing or pushingAndGotEvent.
C7_PushDoneOnlyWhilePushing ==
    Completed # {} => pc = "loop" /\ watcherState \in {pushing, pushingAndGotEvent}

C7_Witness == Completed # {} /\ watcherState = pushingAndGotEvent

\* C8: at most one debounce timer is armed or has its expiry undelivered, and
\* one is exactly when the state is initialDelay; a notification received in
\* initialDelay changes neither the state nor the timer; the timer fires one
\* window after the notification that left waiting.
C8_OneDebounceTicket ==
    /\ [](Tickets <= 1 /\ (Tickets = 1 <=> watcherState = initialDelay))
    /\ [][GotChange /\ watcherState = initialDelay =>
            UNCHANGED <<watcherState, timers, delaySenders>>]_vars
    /\ [][delaySenders' = delaySenders + 1 =>
            age = WindowSteps /\ delaySenders = 0]_vars

C8_Witness ==
    watcherState = initialDelay /\ delaySenders = 1 /\ notes >= 2 /\ age = WindowSteps

\* The cases of a relevant notification.
ArmsTimer == watcherState = waiting /\ Len(timers') = Len(timers) + 1

AbsorbedByTimer ==
    /\ watcherState = initialDelay /\ Tickets >= 1
    /\ UNCHANGED <<watcherState, timers, delaySenders>>

FlipsPushing == watcherState = pushing /\ watcherState' = pushingAndGotEvent

AbsorbedByPendingRerun ==
    /\ watcherState = pushingAndGotEvent
    /\ UNCHANGED <<watcherState, timers, delaySenders>>

\* C9 as stated: every relevant notification the loop processes arms a new
\* timer, is absorbed by an armed timer or flips pushing to
\* pushingAndGotEvent.
C9_ThreeCases ==
    [][GotChange => ArmsTimer \/ AbsorbedByTimer \/ FlipsPushing]_vars

\* C9 amended: ... or, received in pushingAndGotEvent, leaves the state and
\* the timer as they are, the re-run being flagged already.
C9_FourCases ==
    [][GotChange =>
        \/ ArmsTimer /\ watcherState' = initialDelay
        \/ AbsorbedByTimer
        \/ FlipsPushing /\ timers' = timers
        \/ AbsorbedByPendingRerun]_vars

C9_Witness ==
    lastInput = "relevant" /\ watcherState = pushingAndGotEvent /\ notes >= 2

\* C10: the loop is entered once, in waiting, after exactly one initial
\* PushRun has been started and has returned; until then no input is
\* processed, and the initial PushRun sends nothing on pushDone.
C10_StartupOrdering ==
    /\ [](pc # "loop" =>
            /\ lastInput = "none" /\ watcherState = waiting
            /\ Completed = {} /\ Tickets = 0)
    /\ [](pc = "initialPush" <=> \E i \in 1..Len(pushes) : pushes[i].openBrowser)
    /\ [](\A i \in 1..Len(pushes) : pushes[i].openBrowser =>
            Len(pushes) = 1 /\ ~pushes[i].hasDone /\ pushes[i].at = "push")
    /\ [][pc' # pc =>
            <<pc, pc'>> \in {<<"start", "fatal">>, <<"start", "initialPush">>,
                             <<"initialPush", "initialReload">>,
                             <<"initialReload", "loop">>}]_vars
    /\ [][pc' = "loop" /\ pc # "loop" =>
            watcherState' = waiting /\ pushes' = <<>> /\ lastInput' = "none"]_vars

C10_Witness ==
    pc = "loop" /\ lastInput = "none" /\ watcherState = waiting /\ pushes = <<>>

\* A doPush call's push() returns in this step and the call goes on to
\* block on pushDone.
PushCompletes == Cardinality(Completed') = Cardinality(Completed) + 1

\* C11 as stated: a live-reload notification is sent only when a
\* change-triggered PushRun completes, and none for the initial PushRun.
C11_ReloadOnlyForChangePushes ==
    [][reloads' = reloads + 1 => PushCompletes]_vars

\* C11 amended: doPush sends one reload per change-triggered PushRun, on its
\* completion, and none for the initial PushRun; the one other reload is
\* sent by RegisterWatch itself, once, after the initial PushRun has
\* returned and before the loop is entered.
C11_ReloadPerChangePush ==
    /\ [][reloads' = reloads + 1 =>
            \/ PushCompletes
            \/ pc = "initialReload" /\ pc' = "loop" /\ reloads = 0]_vars
    /\ [][PushCompletes => reloads = 0 /\ reloads' = 1]_vars
    /\ [](pc \in {"initialPush", "initialReload"} => reloads = 0)
    /\ [](pc = "loop" =>
            IF Executing >= 1 THEN reloads = 0 ELSE reloads = 1)

C11_Witness ==
    lastInput = "pushDone" /\ watcherState = waiting /\ reloads = 1 /\ chain >= 1

\* C12: the initial push is invoked with browser opening disabled exactly
\* when --noBrowser is set, and change-triggered pushes with it disabled.
C12_BrowserFollowsFlag ==
    \A i \in 1..Len(pushes) :
        IF pc = "initialPush"
        THEN pushes[i].noBrowserArg = noBrowser
        ELSE pushes[i].noBrowserArg = TRUE

\* C13: an ignored notification changes nothing but the record of the last
\* input: not the state, the timers or the PushRuns, in any state.
C13_IgnoredChangesNothing ==
    /\ [][RecvFileWatch("ignored") =>
            UNCHANGED <<pc, watcherState, timers, delaySenders, pushes,
                        reloads, notes, chain, covered, age>>]_vars
    /\ [][watcherState = waiting /\ watcherState' # waiting => GotChange]_vars

C13_Witness ==
    lastInput = "ignored" /\ watcherState = waiting /\ Tickets = 0 /\ pushes = <<>>

\* A push-completed signal is pending while the state is pushing: a relevant
\* notification and the signal race for the select.
RaceState == pc = "loop" /\ watcherState = pushing /\ Completed # {}

\* C14: in the race of a relevant notification with push-completed in
\* pushing, the notification first flags the re-run and the completion then
\* starts it; the completion first returns to waiting and the notification
\* then goes through the debounce; either way the PushRun that follows
\* starts with none outstanding, and PushRuns never overlap.
C14_CrossKindRace ==
    /\ [](Len(pushes) <= 1)
    /\ [][RaceState /\ GotChange =>
            /\ watcherState' = pushingAndGotEvent
            /\ pushes' = pushes /\ timers' = timers /\ Tickets = 0]_vars
    /\ [][RaceState /\ GotPushDone =>
            watcherState' = waiting /\ pushes' = <<>> /\ Tickets = 0]_vars
    /\ [][pc = "loop" /\ StartsPushRun =>
            Executing = 0 /\ Len(pushes') = 1 /\ covered' >= 1]_vars
    /\ (watcherState = pushingAndGotEvent /\ Completed # {})
          ~> (lastInput = "pushDone" /\ watcherState = pushing /\ Executing = 1)
    /\ (watcherState = initialDelay)
          ~> (lastInput = "delayDone" /\ watcherState = pushing /\ Executing = 1)

C14_Witness ==
    /\ watcherState = pushingAndGotEvent
    /\ \E i \in Completed : pushes[i].seen = 0 /\ notes >= 1

\* C15: push-completed received in pushing, no relevant notification having
\* been received since that PushRun started, sets waiting, starts no PushRun
\* and arms no timer.
C15_CompletionWithoutChange ==
    [][GotPushDone /\ watcherState = pushing =>
        /\ notes = 0
        /\ watcherState' = waiting
        /\ ~StartsPushRun /\ pushes' = <<>>
        /\ UNCHANGED <<timers, delaySenders>> /\ Tickets = 0]_vars

C15_Witness ==
    lastInput = "pushDone" /\ watcherState = waiting /\ pushes = <<>> /\ notes = 0

\* C16: every change-triggered push() that returns, failed or not, leaves
\* one push-completed signal, and the loop's step on the signal of a failed
\* push is the one of the transition table.
C16_FailedPushCompletes ==
    /\ [][pc = "loop" /\ Executing' = Executing - 1 =>
            PushCompletes /\ Len(pushes') = Len(pushes)]_vars
    /\ [](Cardinality(Completed) <= 1)
    /\ [][GotPushDone /\ (\E i \in Completed : pushes[i].failed) =>
            IF watcherState = pushingAndGotEvent
            THEN watcherState' = pushing /\ StartsPushRun
            ELSE /\ watcherState = pushing
                 /\ watcherState' = waiting /\ pushes' = <<>>]_vars
    /\ [][PushCompletes => UNCHANGED <<pc, watcherState>>]_vars
    /\ [](watcherState \in WatcherStates)

C16_Witness ==
    /\ watcherState = pushingAndGotEvent
    /\ \E i \in Completed : pushes[i].failed

\* C17: a notification whose path cannot be made relative changes nothing
\* but the record of the last input, and the loop stays at its select.
C17_RelErrorDiscarded ==
    /\ [][RecvFileWatch("relError") =>
            UNCHANGED <<pc, watcherState, timers, delaySenders, pushes,
                        reloads, notes, chain, covered, age>>]_vars
    /\ [](lastInput = "relError" => pc = "loop")

C17_Witness ==
    lastInput = "relError" /\ watcherState = initialDelay /\ Tickets = 1

\* C18: while a change-triggered push() is executing the state is pushing or
\* pushingAndGotEvent and no timer is armed, and every step in which it does
\* not return leaves it the only PushRun and arms no timer; notifications
\* are accepted throughout.
C18_WedgedWhilePushRuns ==
    /\ [](pc = "loop" /\ Executing >= 1 =>
            /\ watcherState \in {pushing, pushingAndGotEvent}
            /\ Len(pushes) = 1 /\ Tickets = 0
            /\ ENABLED RecvFileWatch("ignored"))
    /\ [][pc = "loop" /\ Executing >= 1 /\ ~PushCompletes =>
            /\ pushes' = pushes
            /\ UNCHANGED <<timers, delaySenders>>
            /\ watcherState' \in {pushing, pushingAndGotEvent}]_vars

C18_Witness ==
    /\ pc = "loop" /\ Executing = 1
    /\ watcherState = pushingAndGotEvent /\ notes >= 2 /\ lastInput = "relevant"

\* C19: in the loop the state is pushing or pushingAndGotEvent exactly when
\* a change-triggered doPush is outstanding, executing or blocked on pushDone;
\* there is at most one, so at most one signal is undelivered.
C19_PushingIffOutstanding ==
    pc = "loop" =>
        /\ Len(pushes) <= 1
        /\ watcherState \in {pushing, pushingAndGotEvent} <=> Len(pushes) = 1
        /\ \A i \in 1..Len(pushes) : ~pushes[i].openBrowser /\ pushes[i].hasDone

C19_Witness == pc = "loop" /\ watcherState = pushing /\ Completed # {}

\* C20: every change-triggered PushRun is started with at least one relevant
\* notification received since the PushRun start before it.
C20_NoSpuriousPush ==
    /\ [][pc = "loop" /\ StartsPushRun => notes >= 1 /\ covered' = notes]_vars
    /\ [](\A i \in 1..Len(pushes) : pushes[i].hasDone => covered >= 1)

C20_Witness ==
    Executing = 1 /\ covered = 1 /\ chain = 1 /\ notes = 0 /\ lastInput = "delayDone"

====
